---- MODULE Spec2Model ----
(***************************************************************************)
(* The press/release resolver of pianoroll: note_durations, in its two     *)
(* copies (src/src/midi.rs, which reports anomalies on stdout and goes on, *)
(* and src/src/main.rs, which panics on them), driven by a feed of         *)
(* NoteEvents and by the caller's selection filter.                        *)
(*                                                                         *)
(* Option<T> is modelled as a sequence of length at most one: <<>> is      *)
(* None and <<x>> is Some(x).                                              *)
(***************************************************************************)
EXTENDS Integers, Sequences, FiniteSets, TLC

\* ------------------------------------------------------------------ bounds

\* The longest feed of a pass over a song with several sources and pitches.
MaxEvents == 3

\* The longest feed of a pass over a song with one source and one pitch.
MaxHoleEvents == 6

\* The longest feed of a pass over a song with one source and two pitches.
MaxPairEvents == 4

\* The longest feed of a pass over a song of pitches at the edges of the
\* playable range.
MaxEdgeEvents == 2

\* The longest feed of a pass whose intervals are then written to a file.
MaxWriteEvents == 4

\* The most messages (track starts and events) of a file that is read.
MaxMessages == 4

\* The ticks per beat the file header announces (time_base).
TimeBase == 3

\* ------------------------------------------------------- program constants

\* MidiNote::C1 and MidiNote::G7 as u8: the lowest and the highest playable
\* pitch (nom_midi numbers C-1 as 0, so Cn = 12 * (n + 1)).
MidiNote_C1 == 24
MidiNote_G7 == 103

\* The roll's channels for C1 and for G7 in the layout pianoroll_channel
\* documents; the channels below, and those above up to 97, are for the
\* expressions, the pedals, rewind and blank.
Channel_C1 == 8
Channel_G7 == 87

\* ------------------------------------------------------------------ inputs

\* (track, channel) pairs the feed's events come from.
Sources == {<<0, 1>>, <<1, 0>>}

\* Raw pitches of the feed: the lowest playable pitch and its upper neighbour.
RawNotes == {MidiNote_C1, MidiNote_C1 + 1}

\* Offsets a selector may carry (i8).
Offsets == {-1, 0}

\* Deltas between two consecutive timestamps of the feed.
Deltas == {0, 1}

\* Raw pitches around the two ends of the playable range, and the highest
\* MIDI pitch.
EdgeNotes ==
    {MidiNote_C1 - 1, MidiNote_C1, MidiNote_G7, MidiNote_G7 + 1, 127}

\* Offsets of a selector over a song of edge pitches.
EdgeOffsets == {-1, 0, 1}

\* The delta_time, the velocity and the note of an event of a file.
FileDeltas == {0, 1}
Velocities == {0, 90}
FileNotes == {MidiNote_C1}

\* What the filter returns: None, or Some(offset).
FilterResults == {<<>>} \cup {<<o>> : o \in Offsets}

VARIABLES
    prog,           \* which copy of note_durations runs: "midi" or "main"
    song,           \* what the file holds: sources, pitches, deltas, length
    selectors,      \* the caller's selection: (track, channel) -> Option<i8>
    suppression,    \* the resolver's per-pitch suppression counts
    feed,           \* the events the loop has pulled from `notes` so far
    filter_calls,   \* the events the filter closure has been called with
    stats,          \* the closure's BTreeMap<(track, channel), u64> of presses
    in_flight,      \* BTreeMap<note, InFlightInfo>
    finished_notes, \* Vec<NoteWithDuration>
    printed,        \* the ERROR lines println! has written, in order
    canvas,         \* the rectangles render has drawn on the page
    pc,             \* "loop", "returned" or "panicked"; after the pass, in
                    \* main: "rendered" or "no_notes"; "reading" before it
    reader,         \* which reader reads the file: "ghakuf", "nom_midi"
                    \* (or "none" while a pass runs)
    messages,       \* what the reader has been handed of the file so far
    timestamp,      \* NotesHandler.timestamp / the closure's `timestamp`
    track,          \* NotesHandler.track / the closure's `track`
    events,         \* NotesHandler.events / the NoteEvents yielded so far
    headers_finished, \* NotesHandler.headers_finished
    channel_handler,  \* the ChannelInfoHandler that MidiImpl::read pushes
                      \* after the NotesHandler
    writer          \* MidiImpl::write: its argument, locals and position

vars ==
    <<prog, song, selectors, suppression, feed, filter_calls, stats,
      in_flight, finished_notes, printed, canvas, pc, reader, messages,
      timestamp, track, events, headers_finished, channel_handler, writer>>

\* The reader's state, and the state of the pass and of what follows it.
reading ==
    <<reader, messages, timestamp, track, events, headers_finished,
      channel_handler>>
pass ==
    <<prog, song, selectors, suppression, feed, filter_calls, stats,
      in_flight, finished_notes, printed, canvas, pc, writer>>

\* What no step of a pass writes: the inputs, the page, the reader, and the
\* suppression table, of which note_durations (whose state is
\* finished_notes and in_flight alone) has none.
fixed == <<prog, song, selectors, suppression, canvas, reading, writer>>

\* ------------------------------------------------------------- the feed

\* The timestamp of the last event pulled (0 before the first).
Now == IF feed = <<>> THEN 0 ELSE feed[Len(feed)].timestamp

\* The events the iterator can yield next: timestamps never go back.
NextEvents ==
    { [timestamp |-> Now + d, track |-> s[1], channel |-> s[2],
       note |-> n, action |-> a] :
        d \in song.deltas, s \in song.sources, n \in song.notes,
        a \in {"On", "Off"} }

\* `for event in notes`: the loop pulls the next event.
Pull(ev) ==
    /\ pc = "loop"
    /\ Len(feed) < song.events
    /\ feed' = Append(feed, ev)

\* The caller's closure: the offset of the selector matching the event's
\* track and channel, or None.
Filter(ev) == selectors[<<ev.track, ev.channel>>]

\* The tally counting every event, Releases included.
Stats_CountsReleases(map, ev) ==
    LET k == <<ev.track, ev.channel>>
    IN  [x \in DOMAIN map \cup {k} |->
            IF x = k
            THEN (IF k \in DOMAIN map THEN map[k] ELSE 0) + 1
            ELSE map[x]]

\* The closure's first statement: on NoteAction::On,
\* *stats.entry((event.track, event.channel)).or_insert(0) += 1.
Stats(map, ev) ==
    LET k == <<ev.track, ev.channel>>
    IN  IF ev.action = "On"
        THEN [x \in DOMAIN map \cup {k} |->
                IF x = k
                THEN (IF k \in DOMAIN map THEN map[k] ELSE 0) + 1
                ELSE map[x]]
        ELSE map

\* The closure called twice on the event.
CallFilter_Twice(ev) ==
    /\ filter_calls' = filter_calls \o <<ev, ev>>
    /\ stats' = Stats(Stats(stats, ev), ev)

\* `match filter(&event)`: the loop body's first statement calls the closure
\* on the event just pulled.
CallFilter(ev) ==
    /\ filter_calls' = Append(filter_calls, ev)
    /\ stats' = Stats(stats, ev)

\* ------------------------------------------------- note.rs (not in src/)

\* MidiNote::checked_offset: the exact sum raw + offset, None outside 0..127.
CheckedOffset(note, offset) ==
    IF note + offset \in 0..127 THEN <<note + offset>> ELSE <<>>

\* MidiNote::pianoroll_channel: Some(hole index) for C1..G7, None otherwise.
PianorollChannel(note) ==
    IF note >= MidiNote_C1 /\ note <= MidiNote_G7
    THEN <<note - MidiNote_C1>> ELSE <<>>

\* ------------------------------------------------ midi.rs: note_durations

\* The match yielding the event's raw note where the offset note belongs.
Admit_RawKey(ev, offset) ==
    LET co == CheckedOffset(ev.note, offset)
    IN  IF co /= <<>> /\ PianorollChannel(co[1]) /= <<>>
        THEN <<ev.note>> ELSE <<>>

\* match event.note.checked_offset(offset): Some(note) in range, else None.
Admit(ev, offset) ==
    LET co == CheckedOffset(ev.note, offset)
    IN  IF co /= <<>> /\ PianorollChannel(co[1]) /= <<>> THEN co ELSE <<>>

OutOfRangeLine(ev, offset) ==
    [kind |-> "out_of_range", at |-> ev.timestamp, note |-> ev.note,
     track |-> ev.track, channel |-> ev.channel, arg |-> offset]

\* The "already pressed" line naming the pressing event's own track, channel
\* and timestamp.
AlreadyPressedLine_NamesRePress(ev, note, e) ==
    [kind |-> "already_pressed", at |-> ev.timestamp, note |-> note,
     track |-> ev.track, channel |-> ev.channel, arg |-> ev.timestamp]

AlreadyPressedLine(ev, note, e) ==
    [kind |-> "already_pressed", at |-> ev.timestamp, note |-> note,
     track |-> e.midi_track, channel |-> e.midi_channel, arg |-> e.timestamp]

NotPressedLine(ev, note) ==
    [kind |-> "not_pressed", at |-> ev.timestamp, note |-> note,
     track |-> ev.track, channel |-> ev.channel, arg |-> 0]

\* InFlightInfo with the event's track and channel stored in each other's
\* field.
InFlightInfo_SwapsSource(ev) ==
    [midi_track |-> ev.channel, midi_channel |-> ev.track,
     timestamp |-> ev.timestamp]

InFlightInfo(ev) ==
    [midi_track |-> ev.track, midi_channel |-> ev.channel,
     timestamp |-> ev.timestamp]

\* entry.insert(info) on a vacant entry.
Insert(map, note, info) ==
    [k \in DOMAIN map \cup {note} |-> IF k = note THEN info ELSE map[k]]

\* entry.remove() emptying the whole map.
Remove_Clears(map, note) == <<>>

\* entry.remove() on an occupied entry: the map without the key.
Remove(map, note) == [k \in DOMAIN map \ {note} |-> map[k]]

\* NoteWithDuration starting at the release instead of at the press.
NoteWithDuration_StartsAtRelease(ev, note, start_timestamp) ==
    [timestamp |-> ev.timestamp,
     duration |-> ev.timestamp - start_timestamp,
     note |-> note]

\* NoteWithDuration with the event's raw note where the offset note belongs.
NoteWithDuration_RawNote(ev, note, start_timestamp) ==
    [timestamp |-> start_timestamp,
     duration |-> ev.timestamp - start_timestamp,
     note |-> ev.note]

NoteWithDuration(ev, note, start_timestamp) ==
    [timestamp |-> start_timestamp,
     duration |-> ev.timestamp - start_timestamp,
     note |-> note]

\* The (On, Vacant) arm taking back the interval pushed last.
OnVacant_DropsLast(ev, note) ==
    /\ in_flight' = Insert(in_flight, note, InFlightInfo(ev))
    /\ finished_notes' =
         SubSeq(finished_notes, 1,
                IF finished_notes = <<>> THEN 0 ELSE Len(finished_notes) - 1)
    /\ UNCHANGED <<printed, pc>>

\* The body of the (NoteAction::On, Entry::Vacant) arm.
OnVacant(ev, note) ==
    /\ in_flight' = Insert(in_flight, note, InFlightInfo(ev))
    /\ UNCHANGED <<finished_notes, printed, pc>>

\* The (On, Occupied) arm closing the hole.
OnOccupied_Removes(ev, note) ==
    /\ printed' = Append(printed, AlreadyPressedLine(ev, note, in_flight[note]))
    /\ in_flight' = Remove(in_flight, note)
    /\ UNCHANGED <<finished_notes, pc>>

\* The (On, Occupied) arm overwriting the entry with the new press.
OnOccupied_Replaces(ev, note) ==
    /\ printed' = Append(printed, AlreadyPressedLine(ev, note, in_flight[note]))
    /\ in_flight' = [in_flight EXCEPT ![note] = InFlightInfo(ev)]
    /\ UNCHANGED <<finished_notes, pc>>

\* The body of the (NoteAction::On, Entry::Occupied) arm.
OnOccupied(ev, note) ==
    /\ printed' = Append(printed, AlreadyPressedLine(ev, note, in_flight[note]))
    /\ UNCHANGED <<in_flight, finished_notes, pc>>

\* The (Off, Vacant) arm dropping the event without a line.
OffVacant_Silent(ev, note) ==
    UNCHANGED <<in_flight, finished_notes, printed, pc>>

\* The body of the (NoteAction::Off, Entry::Vacant) arm.
OffVacant(ev, note) ==
    /\ printed' = Append(printed, NotPressedLine(ev, note))
    /\ UNCHANGED <<in_flight, finished_notes, pc>>

\* The (Off, Occupied) arm putting the interval in front of the others.
OffOccupied_PushesFront(ev, note) ==
    /\ in_flight' = Remove(in_flight, note)
    /\ finished_notes' =
         <<NoteWithDuration(ev, note, in_flight[note].timestamp)>>
           \o finished_notes
    /\ UNCHANGED <<printed, pc>>

\* The (Off, Occupied) arm reading the entry without removing it.
OffOccupied_KeepsEntry(ev, note) ==
    /\ finished_notes' =
         Append(finished_notes,
                NoteWithDuration(ev, note, in_flight[note].timestamp))
    /\ UNCHANGED <<in_flight, printed, pc>>

\* The body of the (NoteAction::Off, Entry::Occupied) arm.
OffOccupied(ev, note) ==
    /\ in_flight' = Remove(in_flight, note)
    /\ finished_notes' =
         Append(finished_notes,
                NoteWithDuration(ev, note, in_flight[note].timestamp))
    /\ UNCHANGED <<printed, pc>>

\* The notes still in flight, each closed at the feed's last timestamp, in
\* key order.
RECURSIVE Flush(_)
Flush(map) ==
    IF DOMAIN map = {} THEN <<>>
    ELSE LET k == CHOOSE x \in DOMAIN map : \A y \in DOMAIN map : x <= y
         IN  <<[timestamp |-> map[k].timestamp,
                duration |-> Now - map[k].timestamp,
                note |-> k]>> \o Flush(Remove(map, k))

\* The return closing every note still in flight.
Returned_FlushesOpen ==
    /\ pc' = "returned"
    /\ finished_notes' = finished_notes \o Flush(in_flight)
    /\ UNCHANGED <<feed, filter_calls, stats, in_flight, printed>>

\* The function's last line: finished_notes is returned as it stands.
Returned ==
    /\ pc' = "returned"
    /\ UNCHANGED <<feed, filter_calls, stats, in_flight, finished_notes,
                   printed>>

\* An unselected event clearing the in-flight record of its raw pitch.
Filtered_Removes ==
    \E ev \in NextEvents :
        /\ prog = "midi"
        /\ Pull(ev)
        /\ CallFilter(ev)
        /\ Filter(ev) = <<>>
        /\ in_flight' = Remove(in_flight, ev.note)
        /\ UNCHANGED <<fixed, finished_notes, printed, pc>>

\* filter(&event) is None: continue.
Filtered ==
    \E ev \in NextEvents :
        /\ prog = "midi"
        /\ Pull(ev)
        /\ CallFilter(ev)
        /\ Filter(ev) = <<>>
        /\ UNCHANGED <<fixed, in_flight, finished_notes, printed, pc>>

\* The offset note is None or has no piano roll channel: print, continue.
OutOfRange ==
    \E ev \in NextEvents :
        /\ prog = "midi"
        /\ Pull(ev)
        /\ CallFilter(ev)
        /\ Filter(ev) /= <<>>
        /\ Admit(ev, Filter(ev)[1]) = <<>>
        /\ printed' = Append(printed, OutOfRangeLine(ev, Filter(ev)[1]))
        /\ UNCHANGED <<fixed, in_flight, finished_notes, pc>>

\* (NoteAction::On, Entry::Vacant)
PressVacant ==
    \E ev \in NextEvents :
        /\ prog = "midi"
        /\ Pull(ev)
        /\ CallFilter(ev)
        /\ Filter(ev) /= <<>>
        /\ Admit(ev, Filter(ev)[1]) /= <<>>
        /\ ev.action = "On"
        /\ Admit(ev, Filter(ev)[1])[1] \notin DOMAIN in_flight
        /\ OnVacant(ev, Admit(ev, Filter(ev)[1])[1])
        /\ UNCHANGED fixed

\* (NoteAction::On, Entry::Occupied)
PressOccupied ==
    \E ev \in NextEvents :
        /\ prog = "midi"
        /\ Pull(ev)
        /\ CallFilter(ev)
        /\ Filter(ev) /= <<>>
        /\ Admit(ev, Filter(ev)[1]) /= <<>>
        /\ ev.action = "On"
        /\ Admit(ev, Filter(ev)[1])[1] \in DOMAIN in_flight
        /\ OnOccupied(ev, Admit(ev, Filter(ev)[1])[1])
        /\ UNCHANGED fixed

\* (NoteAction::Off, Entry::Vacant)
ReleaseVacant ==
    \E ev \in NextEvents :
        /\ prog = "midi"
        /\ Pull(ev)
        /\ CallFilter(ev)
        /\ Filter(ev) /= <<>>
        /\ Admit(ev, Filter(ev)[1]) /= <<>>
        /\ ev.action = "Off"
        /\ Admit(ev, Filter(ev)[1])[1] \notin DOMAIN in_flight
        /\ OffVacant(ev, Admit(ev, Filter(ev)[1])[1])
        /\ UNCHANGED fixed

\* (NoteAction::Off, Entry::Occupied)
ReleaseOccupied ==
    \E ev \in NextEvents :
        /\ prog = "midi"
        /\ Pull(ev)
        /\ CallFilter(ev)
        /\ Filter(ev) /= <<>>
        /\ Admit(ev, Filter(ev)[1]) /= <<>>
        /\ ev.action = "Off"
        /\ Admit(ev, Filter(ev)[1])[1] \in DOMAIN in_flight
        /\ OffOccupied(ev, Admit(ev, Filter(ev)[1])[1])
        /\ UNCHANGED fixed

\* The iterator is exhausted: the function returns finished_notes.
Return ==
    /\ prog = "midi"
    /\ pc = "loop"
    /\ Returned
    /\ UNCHANGED fixed

\* ------------------------------------------------ main.rs: note_durations

\* raw + offset on i8: the sum when it fits; when it does not, a build with
\* overflow checks panics (<<>>) and one without wraps modulo 2^8.
I8Add(raw, offset) ==
    LET sum == raw + offset
    IN  IF sum >= -128 /\ sum <= 127
        THEN {<<sum>>}
        ELSE {<<>>, <<((sum + 128) % 256) - 128>>}

\* MidiNote::from(i8) of nom_midi: the note of that number; what it makes of
\* a negative number is not in this repository, so any note may result.
MidiNoteFromI8(v) == IF v >= 0 THEN {v} ELSE 0..127

\* Note::try_from taking C1 itself for too low.
Note_try_from_ExcludesC1(raw) ==
    IF raw <= MidiNote_C1 \/ raw > MidiNote_G7 THEN <<>> ELSE <<raw>>

\* Note::try_from: None below C1 or above G7.
Note_try_from(raw) ==
    IF raw < MidiNote_C1 \/ raw > MidiNote_G7 THEN <<>> ELSE <<raw>>

\* Note::pianoroll_channel: raw - C1.
Note_pianoroll_channel(raw) == raw - MidiNote_C1

\* The outcomes of lines 162-167: <<note>>, or <<>> for a panic (the
\* addition's, or unwrap_or_else's on a note out of piano roll range).
MainResolve(ev, offset) ==
    UNION { IF s = <<>> THEN {<<>>}
            ELSE {Note_try_from(n) : n \in MidiNoteFromI8(s[1])} :
            s \in I8Add(ev.note, offset) }

MainInFlightInfo(ev) ==
    [midi_track |-> ev.track, midi_channel |-> ev.channel,
     timestamp |-> ev.timestamp]

MainNoteWithDuration(ev, note, start_timestamp) ==
    [timestamp |-> start_timestamp,
     duration |-> ev.timestamp - start_timestamp,
     note |-> note]

\* filter(&event) is None: continue.
MainFiltered ==
    \E ev \in NextEvents :
        /\ prog = "main"
        /\ Pull(ev)
        /\ CallFilter(ev)
        /\ Filter(ev) = <<>>
        /\ UNCHANGED <<fixed, in_flight, finished_notes, printed, pc>>

\* The note after the offset is out of piano roll range (or the addition
\* overflowed): panic.
MainOutOfRange ==
    \E ev \in NextEvents :
        /\ prog = "main"
        /\ Pull(ev)
        /\ CallFilter(ev)
        /\ Filter(ev) /= <<>>
        /\ <<>> \in MainResolve(ev, Filter(ev)[1])
        /\ pc' = "panicked"
        /\ UNCHANGED <<fixed, in_flight, finished_notes, printed>>

\* (NoteAction::On, Entry::Vacant)
MainPressVacant ==
    \E ev \in NextEvents :
        /\ prog = "main"
        /\ Pull(ev)
        /\ CallFilter(ev)
        /\ Filter(ev) /= <<>>
        /\ \E r \in MainResolve(ev, Filter(ev)[1]) :
            /\ r /= <<>>
            /\ ev.action = "On"
            /\ r[1] \notin DOMAIN in_flight
            /\ in_flight' = Insert(in_flight, r[1], MainInFlightInfo(ev))
        /\ UNCHANGED <<fixed, finished_notes, printed, pc>>

\* (NoteAction::On, Entry::Occupied): panic.
MainPressOccupied ==
    \E ev \in NextEvents :
        /\ prog = "main"
        /\ Pull(ev)
        /\ CallFilter(ev)
        /\ Filter(ev) /= <<>>
        /\ \E r \in MainResolve(ev, Filter(ev)[1]) :
            /\ r /= <<>>
            /\ ev.action = "On"
            /\ r[1] \in DOMAIN in_flight
        /\ pc' = "panicked"
        /\ UNCHANGED <<fixed, in_flight, finished_notes, printed>>

\* (NoteAction::Off, Entry::Vacant): panic.
MainReleaseVacant ==
    \E ev \in NextEvents :
        /\ prog = "main"
        /\ Pull(ev)
        /\ CallFilter(ev)
        /\ Filter(ev) /= <<>>
        /\ \E r \in MainResolve(ev, Filter(ev)[1]) :
            /\ r /= <<>>
            /\ ev.action = "Off"
            /\ r[1] \notin DOMAIN in_flight
        /\ pc' = "panicked"
        /\ UNCHANGED <<fixed, in_flight, finished_notes, printed>>

\* (NoteAction::Off, Entry::Occupied)
MainReleaseOccupied ==
    \E ev \in NextEvents :
        /\ prog = "main"
        /\ Pull(ev)
        /\ CallFilter(ev)
        /\ Filter(ev) /= <<>>
        /\ \E r \in MainResolve(ev, Filter(ev)[1]) :
            /\ r /= <<>>
            /\ ev.action = "Off"
            /\ r[1] \in DOMAIN in_flight
            /\ in_flight' = Remove(in_flight, r[1])
            /\ finished_notes' =
                 Append(finished_notes,
                        MainNoteWithDuration(ev, r[1], in_flight[r[1]].timestamp))
        /\ UNCHANGED <<fixed, printed, pc>>

\* The iterator is exhausted: the function returns finished_notes.
MainReturn ==
    /\ prog = "main"
    /\ pc = "loop"
    /\ pc' = "returned"
    /\ UNCHANGED <<fixed, feed, filter_calls, stats, in_flight,
                   finished_notes, printed>>

\* Vec::sort_by_key(|event| event.timestamp): a stable sort, here by
\* insertion of each element behind those whose key is not greater.
InsertByTimestamp(sorted, x) ==
    LET n == Cardinality({i \in 1..Len(sorted) :
                            sorted[i].timestamp <= x.timestamp})
    IN  SubSeq(sorted, 1, n) \o <<x>> \o SubSeq(sorted, n + 1, Len(sorted))

RECURSIVE SortByTimestamp(_)
SortByTimestamp(notes) ==
    IF notes = <<>> THEN <<>>
    ELSE InsertByTimestamp(SortByTimestamp(SubSeq(notes, 1, Len(notes) - 1)),
                           notes[Len(notes)])

\* note_rectangle for one note, with the default time_divisor of 1: the
\* channel is note.note.pianoroll_channel().
NoteRectangle(note) ==
    [channel |-> Note_pianoroll_channel(note.note),
     start |-> note.timestamp,
     height |-> note.duration]

\* main after the pass: durations is sorted by timestamp and rendered, one
\* rectangle per note.
MainRender ==
    /\ prog = "main"
    /\ pc = "returned"
    /\ finished_notes /= <<>>
    /\ canvas' = [k \in 1..Len(finished_notes) |->
                    NoteRectangle(SortByTimestamp(finished_notes)[k])]
    /\ pc' = "rendered"
    /\ UNCHANGED <<prog, song, selectors, suppression, feed, filter_calls,
                   stats, in_flight, finished_notes, printed, reading,
                   writer>>

\* main after the pass: durations is empty, panic!("no notes selected!").
MainNoNotes ==
    /\ prog = "main"
    /\ pc = "returned"
    /\ finished_notes = <<>>
    /\ pc' = "no_notes"
    /\ UNCHANGED <<fixed, feed, filter_calls, stats, in_flight,
                   finished_notes, printed>>

\* ------------------------------------------------------------ the readers

\* What a reader is handed of the file, one message at a time: the start of
\* a track, or one event of the track with its delta_time.
TrackStart ==
    [kind |-> "TrackChange", delta_time |-> 0, ch |-> 0, note |-> 0,
     velocity |-> 0]
MetaMessages ==
    {[kind |-> "Meta", delta_time |-> d, ch |-> 0, note |-> 0, velocity |-> 0] :
        d \in FileDeltas}
SysExMessages ==
    {[kind |-> "SysEx", delta_time |-> d, ch |-> 0, note |-> 0,
      velocity |-> 0] : d \in FileDeltas}
MidiMessages ==
    {[kind |-> k, delta_time |-> d, ch |-> 0, note |-> n, velocity |-> v] :
        k \in {"NoteOn", "NoteOff"}, d \in FileDeltas, n \in FileNotes,
        v \in Velocities}
      \cup
    {[kind |-> "ControlChange", delta_time |-> d, ch |-> 0, note |-> 0,
      velocity |-> 0] : d \in FileDeltas}

\* ChannelInfoHandler::new()
ChannelInfoHandler_new ==
    [track |-> 0, headers_finished |-> FALSE, tracks |-> <<>>,
     channels |-> <<>>]

\* map.entry(key).or_insert(value)
OrInsert(map, key, value) ==
    [k \in DOMAIN map \cup {key} |->
        IF k \in DOMAIN map THEN map[k] ELSE value]

\* ChannelInfoHandler::track_change counting the first track as well.
ChannelInfoHandler_track_change_CountsFirst(h) ==
    [h EXCEPT !.track = @ + 1, !.headers_finished = TRUE]

\* ChannelInfoHandler::track_change
ChannelInfoHandler_track_change(h) ==
    IF h.headers_finished
    THEN [h EXCEPT !.track = @ + 1]
    ELSE [h EXCEPT !.headers_finished = TRUE]

\* ChannelInfoHandler::meta_event, for a meta event that is neither a track
\* name nor an instrument name: the track gets its entry, with no names.
ChannelInfoHandler_meta_event(h, m) ==
    [h EXCEPT !.tracks =
        OrInsert(@, h.track, [name |-> <<>>, instrument |-> <<>>])]

\* ChannelInfoHandler::midi_event: a NoteOn makes the entry of its (track,
\* channel) if there was none; a NoteOff, and a ControlChange other than
\* bank select, fall to `_ => ()`.
ChannelInfoHandler_midi_event(h, m) ==
    IF m.kind = "NoteOn"
    THEN [h EXCEPT !.channels =
            OrInsert(@, <<h.track, m.ch>>, [bank |-> <<>>, program |-> <<>>])]
    ELSE h

\* MidiImpl::write has not been called.
NotWriting ==
    [pc |-> "idle", notes |-> <<>>, note_events |-> <<>>,
     messages |-> <<>>, last_timestamp |-> 0]

\* The reader takes the next message of the file.
Read(m) ==
    /\ pc = "reading"
    /\ Len(messages) < MaxMessages
    /\ messages' = Append(messages, m)

\* MidiNote::try_from(u8) of note.rs (not in src/): the note of that number,
\* None above 127.
MidiNote_try_from(n) == IF n \in 0..127 THEN <<n>> ELSE <<>>

\* A NoteOn taken for a Press whatever its velocity.
NoteOnAction_AlwaysOn(velocity) == "On"

\* `if *velocity == 0 { NoteAction::Off } else { NoteAction::On }`
NoteOnAction(velocity) == IF velocity = 0 THEN "Off" ELSE "On"

\* The NoteEvent a note message yields at time ts on track tr, if any.
Yield(m, ts, tr) ==
    IF m.kind = "NoteOn"
    THEN <<[timestamp |-> ts, track |-> tr, channel |-> m.ch,
            note |-> MidiNote_try_from(m.note)[1],
            action |-> NoteOnAction(m.velocity)]>>
    ELSE IF m.kind = "NoteOff"
    THEN <<[timestamp |-> ts, track |-> tr, channel |-> m.ch,
            note |-> MidiNote_try_from(m.note)[1], action |-> "Off"]>>
    ELSE <<>>

\* NotesHandler::track_change counting the first track as well.
track_change_CountsFirst ==
    /\ reader = "ghakuf"
    /\ Read(TrackStart)
    /\ track' = track + 1
    /\ timestamp' = 0
    /\ headers_finished' = TRUE
    /\ channel_handler' = ChannelInfoHandler_track_change(channel_handler)
    /\ UNCHANGED <<reader, events, pass>>

\* The start of a track: ghakuf calls track_change of the NotesHandler and
\* then of the ChannelInfoHandler.
track_change ==
    /\ reader = "ghakuf"
    /\ Read(TrackStart)
    /\ IF headers_finished
       THEN /\ track' = track + 1
            /\ timestamp' = 0
            /\ UNCHANGED headers_finished
       ELSE /\ headers_finished' = TRUE
            /\ UNCHANGED <<track, timestamp>>
    /\ channel_handler' = ChannelInfoHandler_track_change(channel_handler)
    /\ UNCHANGED <<reader, events, pass>>

\* NotesHandler::meta_event leaving the clock where it is.
meta_event_IgnoresDelta ==
    \E m \in MetaMessages :
        /\ reader = "ghakuf"
        /\ headers_finished
        /\ Read(m)
        /\ channel_handler' = ChannelInfoHandler_meta_event(channel_handler, m)
        /\ UNCHANGED <<reader, timestamp, track, events, headers_finished,
                       pass>>

\* A meta event: meta_event of the NotesHandler, then of the
\* ChannelInfoHandler.
meta_event ==
    \E m \in MetaMessages :
        /\ reader = "ghakuf"
        /\ headers_finished
        /\ Read(m)
        /\ timestamp' = timestamp + m.delta_time
        /\ channel_handler' = ChannelInfoHandler_meta_event(channel_handler, m)
        /\ UNCHANGED <<reader, track, events, headers_finished, pass>>

\* A MIDI event: midi_event of the NotesHandler, then of the
\* ChannelInfoHandler.
midi_event ==
    \E m \in MidiMessages :
        /\ reader = "ghakuf"
        /\ headers_finished
        /\ Read(m)
        /\ timestamp' = timestamp + m.delta_time
        /\ events' = events \o Yield(m, timestamp', track)
        /\ channel_handler' = ChannelInfoHandler_midi_event(channel_handler, m)
        /\ UNCHANGED <<reader, track, headers_finished, pass>>

\* NotesHandler::sys_ex_event (the ChannelInfoHandler has none of its own:
\* the trait's default does nothing).
sys_ex_event ==
    \E m \in SysExMessages :
        /\ reader = "ghakuf"
        /\ headers_finished
        /\ Read(m)
        /\ timestamp' = timestamp + m.delta_time
        /\ UNCHANGED <<reader, track, events, headers_finished,
                       channel_handler, pass>>

\* notes of midi_impl_nom_midi: flat_map's closure takes the next track, its
\* number from enumerate, and starts the track's clock at 0.
notes_track ==
    /\ reader = "nom_midi"
    /\ Read(TrackStart)
    /\ track' = Cardinality({i \in 1..Len(messages) :
                                messages[i].kind = "TrackChange"})
    /\ timestamp' = 0
    /\ UNCHANGED <<reader, events, headers_finished, channel_handler, pass>>

\* notes of midi_impl_nom_midi: filter_map's closure on one event of the
\* track.
notes_event ==
    \E m \in MidiMessages \cup MetaMessages \cup SysExMessages :
        /\ reader = "nom_midi"
        /\ messages /= <<>>
        /\ Read(m)
        /\ timestamp' = timestamp + m.delta_time
        /\ events' = events \o Yield(m, timestamp', track)
        /\ UNCHANGED <<reader, track, headers_finished, channel_handler,
                       pass>>

\* A reader, ghakuf's handler or nom_midi's iterator, about to read a file.
InitReader ==
    /\ reader \in {"ghakuf", "nom_midi"}
    /\ messages = <<>>
    /\ timestamp = 0
    /\ track = 0
    /\ events = <<>>
    /\ headers_finished = FALSE
    /\ channel_handler = ChannelInfoHandler_new
    /\ writer = NotWriting
    /\ prog = "midi"
    /\ song = [sources |-> {}, notes |-> {}, deltas |-> {}, events |-> 0]
    /\ selectors = <<>>
    /\ suppression = <<>>
    /\ feed = <<>>
    /\ filter_calls = <<>>
    /\ stats = <<>>
    /\ in_flight = <<>>
    /\ finished_notes = <<>>
    /\ printed = <<>>
    /\ canvas = <<>>
    /\ pc = "reading"

NextReader ==
    \/ track_change
    \/ meta_event
    \/ midi_event
    \/ sys_ex_event
    \/ notes_track
    \/ notes_event

SpecReader == InitReader /\ [][NextReader]_vars

\* ------------------------------------------- midi_impl_ghakuf.rs: write

\* const VELOCITY: u8 = 90
VELOCITY == 90

\* Where a song is written, its clock counts in units of 2^31 ticks, so that
\* a u32 holds the two values 0 and 1 of the unit: this is the number of
\* values of a u32 in that unit, 2^32 / 2^31.
U32Range == 2

\* `x as u32` for a u64 x: the low 32 bits.
AsU32(x) == x % U32Range

\* One turn of the loop of note_durations (midi.rs) on event ev, for which
\* the filter returns Some(offset); st is the function's in_flight and
\* finished_notes, with the lines printed so far.
LoopBody(st, ev, offset) ==
    IF Admit(ev, offset) = <<>>
    THEN [st EXCEPT !.printed = Append(@, OutOfRangeLine(ev, offset))]
    ELSE LET note == Admit(ev, offset)[1]
         IN  IF ev.action = "On"
             THEN IF note \notin DOMAIN st.in_flight
                  THEN [st EXCEPT
                          !.in_flight = Insert(@, note, InFlightInfo(ev))]
                  ELSE [st EXCEPT
                          !.printed =
                             Append(@, AlreadyPressedLine(ev, note,
                                                          st.in_flight[note]))]
             ELSE IF note \notin DOMAIN st.in_flight
                  THEN [st EXCEPT
                          !.printed = Append(@, NotPressedLine(ev, note))]
                  ELSE [st EXCEPT
                          !.in_flight = Remove(@, note),
                          !.finished_notes =
                             Append(@, NoteWithDuration(ev, note,
                                          st.in_flight[note].timestamp))]

\* note_durations (midi.rs) over the whole feed `notes`, with a filter that
\* returns Some(offset) for every event.
RECURSIVE note_durations(_, _)
note_durations(notes, offset) ==
    IF notes = <<>>
    THEN [in_flight |-> <<>>, finished_notes |-> <<>>, printed |-> <<>>]
    ELSE LoopBody(note_durations(SubSeq(notes, 1, Len(notes) - 1), offset),
                  notes[Len(notes)], offset)

\* The messages write starts with: SetTempo, EndOfTrack, TrackChange, bank
\* select 0 and program 1 on channel 0, all at delta_time 0.
WriteHeader ==
    <<[kind |-> "Meta", delta_time |-> 0, ch |-> 0, note |-> 0, velocity |-> 0],
      [kind |-> "Meta", delta_time |-> 0, ch |-> 0, note |-> 0, velocity |-> 0],
      TrackStart,
      [kind |-> "ControlChange", delta_time |-> 0, ch |-> 0, note |-> 0,
       velocity |-> 0],
      [kind |-> "ProgramChange", delta_time |-> 0, ch |-> 0, note |-> 0,
       velocity |-> 0]>>

\* The two NoteEvents pushed for one note, the Off before the On.
NoteOnOff_OffFirst(note) ==
    <<[timestamp |-> note.timestamp + note.duration, track |-> 0,
       channel |-> 0, note |-> note.note, action |-> "Off"],
      [timestamp |-> note.timestamp, track |-> 0, channel |-> 0,
       note |-> note.note, action |-> "On"]>>

\* The two NoteEvents pushed for one note: On at its timestamp, Off at its
\* timestamp + duration, on track 0 and channel 0.
NoteOnOff(note) ==
    <<[timestamp |-> note.timestamp, track |-> 0, channel |-> 0,
       note |-> note.note, action |-> "On"],
      [timestamp |-> note.timestamp + note.duration, track |-> 0,
       channel |-> 0, note |-> note.note, action |-> "Off"]>>

\* The message made of one NoteEvent, after the event at last_timestamp.
NoteMessage(ev, last_timestamp) ==
    [kind |-> IF ev.action = "On" THEN "NoteOn" ELSE "NoteOff",
     delta_time |-> AsU32(ev.timestamp - last_timestamp),
     ch |-> ev.channel, note |-> ev.note, velocity |-> VELOCITY]

\* write is called with the intervals a pass of midi.rs's note_durations
\* returned, as they are or sorted by timestamp: it makes the first five
\* messages.
write_begin ==
    /\ prog = "midi"
    /\ pc = "returned"
    /\ writer.pc = "idle"
    /\ \E notes \in {finished_notes, SortByTimestamp(finished_notes)} :
          writer' = [writer EXCEPT !.pc = "notes", !.notes = notes,
                                   !.messages = WriteHeader]
    /\ UNCHANGED <<prog, song, selectors, suppression, feed, filter_calls,
                   stats, in_flight, finished_notes, printed, canvas, pc,
                   reading>>

\* `for note in notes`: one turn, pushing the note's two NoteEvents.
write_push ==
    /\ writer.pc = "notes"
    /\ Len(writer.note_events) < 2 * Len(writer.notes)
    /\ writer' = [writer EXCEPT !.note_events =
                    @ \o NoteOnOff(writer.notes[Len(@) \div 2 + 1])]
    /\ UNCHANGED <<prog, song, selectors, suppression, feed, filter_calls,
                   stats, in_flight, finished_notes, printed, canvas, pc,
                   reading>>

\* note_events.sort_by_key(|event| event.timestamp); last_timestamp = 0.
write_sort ==
    /\ writer.pc = "notes"
    /\ Len(writer.note_events) = 2 * Len(writer.notes)
    /\ writer' = [writer EXCEPT !.pc = "messages",
                                !.note_events = SortByTimestamp(@),
                                !.last_timestamp = 0]
    /\ UNCHANGED <<prog, song, selectors, suppression, feed, filter_calls,
                   stats, in_flight, finished_notes, printed, canvas, pc,
                   reading>>

\* `for note in note_events`: one turn, pushing the event's message.
write_message ==
    /\ writer.pc = "messages"
    /\ Len(writer.messages) < Len(WriteHeader) + Len(writer.note_events)
    /\ LET ev == writer.note_events[Len(writer.messages)
                                      - Len(WriteHeader) + 1]
       IN  writer' = [writer EXCEPT
                        !.messages =
                            Append(@, NoteMessage(ev, writer.last_timestamp)),
                        !.last_timestamp = ev.timestamp]
    /\ UNCHANGED <<prog, song, selectors, suppression, feed, filter_calls,
                   stats, in_flight, finished_notes, printed, canvas, pc,
                   reading>>

\* The closing EndOfTrack is pushed and the messages go to the writer.
write_end ==
    /\ writer.pc = "messages"
    /\ Len(writer.messages) = Len(WriteHeader) + Len(writer.note_events)
    /\ writer' = [writer EXCEPT
                    !.pc = "written",
                    !.messages =
                        Append(@, [kind |-> "Meta", delta_time |-> 0,
                                   ch |-> 0, note |-> 0, velocity |-> 0])]
    /\ UNCHANGED <<prog, song, selectors, suppression, feed, filter_calls,
                   stats, in_flight, finished_notes, printed, canvas, pc,
                   reading>>

\* ------------------------------------------------------------ the system

\* The reader is done: the pass has its feed.
NotReading ==
    /\ reader = "none"
    /\ messages = <<>>
    /\ timestamp = 0
    /\ track = 0
    /\ events = <<>>
    /\ headers_finished = FALSE
    /\ channel_handler = ChannelInfoHandler_new

\* A pass starting with the table a previous pass left behind.
Start_KeepsInFlight ==
    /\ NotReading
    /\ prog \in {"midi", "main"}
    /\ suppression = <<>>
    /\ feed = <<>>
    /\ filter_calls = <<>>
    /\ stats = <<>>
    /\ canvas = <<>>
    /\ in_flight =
         [k \in {MidiNote_C1} |->
            [midi_track |-> 0, midi_channel |-> 1, timestamp |-> 0]]
    /\ finished_notes = <<>>
    /\ printed = <<>>
    /\ pc = "loop"
    /\ writer = NotWriting

\* The state after the function's first two statements, for a given song.
Start ==
    /\ NotReading
    /\ prog \in {"midi", "main"}
    /\ suppression = <<>>
    /\ feed = <<>>
    /\ filter_calls = <<>>
    /\ stats = <<>>
    /\ canvas = <<>>
    /\ in_flight = <<>>
    /\ finished_notes = <<>>
    /\ printed = <<>>
    /\ pc = "loop"
    /\ writer = NotWriting

\* A song of two sources and two pitches: the first source is selected as it
\* is, the second is left out, or selected with any of the offsets.
Init ==
    /\ song = [sources |-> Sources, notes |-> RawNotes, deltas |-> Deltas,
               events |-> MaxEvents]
    /\ selectors \in
         {[s \in Sources |-> IF s = <<0, 1>> THEN <<0>> ELSE r] :
            r \in FilterResults}
    /\ Start

\* A song of one source and one pitch, selected with offset 0: one hole.
InitHole ==
    /\ song = [sources |-> {<<0, 1>>}, notes |-> {MidiNote_C1},
               deltas |-> Deltas, events |-> MaxHoleEvents]
    /\ selectors = [s \in {<<0, 1>>} |-> <<0>>]
    /\ Start

Next ==
    \/ Filtered
    \/ OutOfRange
    \/ PressVacant
    \/ PressOccupied
    \/ ReleaseVacant
    \/ ReleaseOccupied
    \/ Return
    \/ MainFiltered
    \/ MainOutOfRange
    \/ MainPressVacant
    \/ MainPressOccupied
    \/ MainReleaseVacant
    \/ MainReleaseOccupied
    \/ MainReturn
    \/ MainRender
    \/ MainNoNotes

Spec == Init /\ [][Next]_vars

\* The arms a one-hole song can take: nothing is filtered or out of range.
NextHole ==
    \/ PressVacant
    \/ PressOccupied
    \/ ReleaseVacant
    \/ ReleaseOccupied
    \/ Return
    \/ MainPressVacant
    \/ MainPressOccupied
    \/ MainReleaseVacant
    \/ MainReleaseOccupied
    \/ MainReturn

SpecHole == InitHole /\ [][NextHole]_vars

\* A song of one source and two pitches, selected with offset 0: two holes
\* that can overlap in time.
InitPair ==
    /\ song = [sources |-> {<<0, 1>>}, notes |-> RawNotes,
               deltas |-> Deltas, events |-> MaxPairEvents]
    /\ selectors = [s \in {<<0, 1>>} |-> <<0>>]
    /\ Start

SpecPair == InitPair /\ [][NextHole]_vars

\* A song of one source and two pitches, selected with offset 0 and
\* resolved by midi.rs's note_durations; the intervals are then written.
InitWrite ==
    /\ song = [sources |-> {<<0, 1>>}, notes |-> RawNotes,
               deltas |-> Deltas, events |-> MaxWriteEvents]
    /\ selectors = [s \in {<<0, 1>>} |-> <<0>>]
    /\ Start
    /\ prog = "midi"

NextWrite ==
    \/ PressVacant
    \/ PressOccupied
    \/ ReleaseVacant
    \/ ReleaseOccupied
    \/ Return
    \/ write_begin
    \/ write_push
    \/ write_sort
    \/ write_message
    \/ write_end

SpecWrite == InitWrite /\ [][NextWrite]_vars

\* A song of one source whose pitches sit at the edges of the playable
\* range and whose events all come at tick 0, selected with one of the
\* offsets.
InitEdge ==
    /\ song = [sources |-> {<<0, 1>>}, notes |-> EdgeNotes,
               deltas |-> {0}, events |-> MaxEdgeEvents]
    /\ selectors \in {[s \in {<<0, 1>>} |-> <<o>>] : o \in EdgeOffsets}
    /\ Start

\* The arms such a song can take: its one source is always selected.
NextEdge ==
    \/ OutOfRange
    \/ PressVacant
    \/ PressOccupied
    \/ ReleaseVacant
    \/ ReleaseOccupied
    \/ Return
    \/ MainOutOfRange
    \/ MainPressVacant
    \/ MainPressOccupied
    \/ MainReleaseVacant
    \/ MainReleaseOccupied
    \/ MainReturn

SpecEdge == InitEdge /\ [][NextEdge]_vars

\* ------------------------------------------------- the terms of the claims

\* The step pulled an event from the feed; Taken is that event.
Stepped == Len(feed') = Len(feed) + 1
Taken == feed'[Len(feed')]

\* The filter selects the event; its pitch after the offset; the playable
\* interval; an event the resolver admits.
Selected(ev) == Filter(ev) /= <<>>
ResolvedPitch(ev) == ev.note + Filter(ev)[1]
Playable(p) == p >= MidiNote_C1 /\ p <= MidiNote_G7
Admitted(ev) == Selected(ev) /\ Playable(ResolvedPitch(ev))

\* The playable pitches the song's notes can resolve to.
SongPitches ==
    {q \in {n + o : n \in song.notes, o \in Offsets} : Playable(q)}

\* Event i of feed f is an admitted Press (Release) of pitch p.
PressAt(f, i, p) ==
    Admitted(f[i]) /\ f[i].action = "On" /\ ResolvedPitch(f[i]) = p
ReleaseAt(f, i, p) ==
    Admitted(f[i]) /\ f[i].action = "Off" /\ ResolvedPitch(f[i]) = p

\* After the first n events of f the hole of p is open: the last admitted
\* event of p among them is a Press.
OpenAfter(f, n, p) ==
    \E i \in 1..n :
        PressAt(f, i, p) /\ \A j \in (i + 1)..n : ~ReleaseAt(f, j, p)

\* The Press that opened the hole of p which is open after f: the first one
\* since the last Release of p.
OpenedAt(f, p) ==
    CHOOSE i \in 1..Len(f) :
        /\ PressAt(f, i, p)
        /\ \A j \in 1..(i - 1) :
             PressAt(f, j, p) => \E k \in (j + 1)..(i - 1) : ReleaseAt(f, k, p)
        /\ \A j \in (i + 1)..Len(f) : ~ReleaseAt(f, j, p)

\* The kinds of event of a feed, by position.
ReleasesOnOpen(f, p) ==
    {i \in 1..Len(f) : ReleaseAt(f, i, p) /\ OpenAfter(f, i - 1, p)}
RePresses(f) ==
    {i \in 1..Len(f) :
        /\ Admitted(f[i])
        /\ f[i].action = "On"
        /\ OpenAfter(f, i - 1, ResolvedPitch(f[i]))}
OrphanReleases(f) ==
    {i \in 1..Len(f) :
        /\ Admitted(f[i])
        /\ f[i].action = "Off"
        /\ ~OpenAfter(f, i - 1, ResolvedPitch(f[i]))}
OutOfRangeEvents(f) ==
    {i \in 1..Len(f) : Selected(f[i]) /\ ~Playable(ResolvedPitch(f[i]))}

\* The steps the transition table of the resolver tells apart.
PressOnClosed ==
    /\ Stepped /\ Admitted(Taken) /\ Taken.action = "On"
    /\ ResolvedPitch(Taken) \notin DOMAIN in_flight
PressOnOpen ==
    /\ Stepped /\ Admitted(Taken) /\ Taken.action = "On"
    /\ ResolvedPitch(Taken) \in DOMAIN in_flight
ReleaseOnOpen ==
    /\ Stepped /\ Admitted(Taken) /\ Taken.action = "Off"
    /\ ResolvedPitch(Taken) \in DOMAIN in_flight
ReleaseOnClosed ==
    /\ Stepped /\ Admitted(Taken) /\ Taken.action = "Off"
    /\ ResolvedPitch(Taken) \notin DOMAIN in_flight

LastEvent == feed[Len(feed)]
LastFinished == finished_notes[Len(finished_notes)]

\* ------------------------------------------------------------------ claims

\* C1: a Release of a resolved pitch whose hole is open removes the pitch's
\* in-flight record and appends exactly one interval, with start = the stored
\* press timestamp, duration = release timestamp - stored press timestamp and
\* note = the resolved pitch; afterwards the hole is closed.
C1_ReleaseOnOpenEmitsInterval ==
    [][ReleaseOnOpen =>
        LET p == ResolvedPitch(Taken)
        IN  /\ in_flight' = [k \in DOMAIN in_flight \ {p} |-> in_flight[k]]
            /\ p \notin DOMAIN in_flight'
            /\ finished_notes' =
                 Append(finished_notes,
                        [timestamp |-> in_flight[p].timestamp,
                         duration |-> Taken.timestamp - in_flight[p].timestamp,
                         note |-> p])
       ]_vars

\* A Release with offset -1 has just closed a hole that was open for a while.
C1_Witness ==
    /\ Len(feed) >= 2
    /\ Admitted(LastEvent)
    /\ LastEvent.action = "Off"
    /\ Filter(LastEvent) = <<-1>>
    /\ Len(finished_notes) = 1
    /\ LastFinished.note = ResolvedPitch(LastEvent)
    /\ LastFinished.duration > 0
    /\ LastFinished.timestamp + LastFinished.duration = LastEvent.timestamp
    /\ ResolvedPitch(LastEvent) \notin DOMAIN in_flight

\* C2: a Press of a resolved pitch whose hole is open leaves the in-flight
\* table as it is, every stored record is that of the press that opened the
\* hole, and the interval a later Release emits starts at that first press.
C2_RePressKeepsFirstPress ==
    [][/\ PressOnOpen => in_flight' = in_flight
       /\ \A p \in DOMAIN in_flight' :
            LET first == feed'[OpenedAt(feed', p)]
            IN  in_flight'[p] =
                    [midi_track |-> first.track,
                     midi_channel |-> first.channel,
                     timestamp |-> first.timestamp]
       /\ ReleaseOnOpen =>
            /\ Len(finished_notes') = Len(finished_notes) + 1
            /\ finished_notes'[Len(finished_notes')].timestamp =
                 feed[OpenedAt(feed, ResolvedPitch(Taken))].timestamp
      ]_vars

\* A hole opened by one source, pressed again later by the other, then
\* released: the one interval starts at the first press.
C2_Witness ==
    /\ Len(feed) = 3
    /\ \E p \in SongPitches :
        /\ PressAt(feed, 1, p)
        /\ PressAt(feed, 2, p)
        /\ ReleaseAt(feed, 3, p)
    /\ feed[2].timestamp > feed[1].timestamp
    /\ feed[2].track /= feed[1].track
    /\ Len(finished_notes) = 1
    /\ finished_notes[1].timestamp = feed[1].timestamp

\* C8: a Press of a resolved pitch whose hole is closed stores a record of
\* exactly that event's track, channel and timestamp under the pitch, and
\* emits neither an interval nor a diagnostic.
C8_PressOnClosedOpensHole ==
    [][PressOnClosed =>
        LET p == ResolvedPitch(Taken)
        IN  /\ in_flight' =
                 [k \in DOMAIN in_flight \cup {p} |->
                    IF k = p
                    THEN [midi_track |-> Taken.track,
                          midi_channel |-> Taken.channel,
                          timestamp |-> Taken.timestamp]
                    ELSE in_flight[k]]
            /\ finished_notes' = finished_notes
            /\ printed' = printed
            /\ pc' = "loop"
       ]_vars

\* The second event of the feed, a Press with offset -1 at a later time, has
\* opened its hole beside the one the first event opened.
C8_Witness ==
    /\ Len(feed) = 2
    /\ Admitted(LastEvent)
    /\ LastEvent.action = "On"
    /\ Filter(LastEvent) = <<-1>>
    /\ LastEvent.timestamp > 0
    /\ Cardinality(DOMAIN in_flight) = 2
    /\ in_flight[ResolvedPitch(LastEvent)].timestamp = LastEvent.timestamp
    /\ in_flight[ResolvedPitch(LastEvent)].midi_track = LastEvent.track
    /\ in_flight[ResolvedPitch(LastEvent)].midi_channel = LastEvent.channel
    /\ printed = <<>>
    /\ finished_notes = <<>>

\* C9: when the feed is exhausted a hole still open adds no interval and no
\* diagnostic: the returned list holds, for each pitch, as many intervals as
\* Releases found its hole open, and the lines printed are those of the
\* feed's out-of-range events, presses on open holes and releases on closed
\* ones.
C9_DanglingPressDropped ==
    pc = "returned" =>
        /\ \A p \in SongPitches :
             Cardinality({k \in 1..Len(finished_notes) :
                             finished_notes[k].note = p})
               = Cardinality(ReleasesOnOpen(feed, p))
        /\ \A k \in 1..Len(finished_notes) :
             finished_notes[k].note \in SongPitches
        /\ prog = "midi" =>
             Len(printed) = Cardinality(OutOfRangeEvents(feed))
                          + Cardinality(RePresses(feed))
                          + Cardinality(OrphanReleases(feed))
        /\ prog = "main" => printed = <<>>

\* A pass has returned one interval and left another hole open.
C9_Witness ==
    /\ pc = "returned"
    /\ Len(finished_notes) = 1
    /\ DOMAIN in_flight /= {}
    /\ Admitted(LastEvent)
    /\ LastEvent.action = "On"
\* The tolerance of the resolver's transition table: a third of a beat.
fudge_factor_ticks == TimeBase \div 3

\* The count a suppression table holds for a pitch: 0 when it has no entry.
SuppressionCount(table, p) == IF p \in DOMAIN table THEN table[p] ELSE 0

\* The suppression credit the transition table gives pitch p after the first
\* n events of f: one more for each Press on the open hole, one less for each
\* Release on the closed hole that finds credit.
RECURSIVE Credit(_, _, _)
Credit(f, n, p) ==
    IF n = 0 THEN 0
    ELSE LET c == Credit(f, n - 1, p)
         IN  IF PressAt(f, n, p) /\ OpenAfter(f, n - 1, p) THEN c + 1
             ELSE IF ReleaseAt(f, n, p) /\ ~OpenAfter(f, n - 1, p) /\ c > 0
                  THEN c - 1
                  ELSE c

\* C3: every Press that arrives while its resolved pitch's hole is open adds
\* exactly 1 to that pitch's suppression count, whatever the gap to the
\* press that opened the hole.
C3_RePressIncrementsSuppression ==
    [][PressOnOpen =>
        SuppressionCount(suppression', ResolvedPitch(Taken))
          = SuppressionCount(suppression, ResolvedPitch(Taken)) + 1
      ]_vars

\* C4: a Release of a resolved pitch whose hole is closed and which has
\* suppression credit (an earlier Press on the open hole not yet paid for) is
\* dropped with no diagnostic and no interval, and the pass goes on; so
\* Press, Press, Release, Release of one pitch prints nothing for the second
\* Release.
C4_ReleaseWithCreditIsSilent ==
    [][(/\ ReleaseOnClosed
        /\ Credit(feed, Len(feed), ResolvedPitch(Taken)) > 0) =>
            /\ printed' = printed
            /\ finished_notes' = finished_notes
            /\ pc' = "loop"
      ]_vars

\* C5: a Release of a resolved pitch whose hole is closed and which has no
\* suppression credit adds exactly one "not pressed" diagnostic for that
\* event, adds no interval, leaves the in-flight table alone, and the pass
\* goes on to the next event.
C5_OrphanReleaseReported ==
    [][(/\ ReleaseOnClosed
        /\ Credit(feed, Len(feed), ResolvedPitch(Taken)) = 0) =>
            /\ Len(printed') = Len(printed) + 1
            /\ SubSeq(printed', 1, Len(printed)) = printed
            /\ printed'[Len(printed')].kind = "not_pressed"
            /\ printed'[Len(printed')].at = Taken.timestamp
            /\ printed'[Len(printed')].note = ResolvedPitch(Taken)
            /\ finished_notes' = finished_notes
            /\ in_flight' = in_flight
            /\ pc' = "loop"
      ]_vars

\* C6: a Press on an open hole prints the "already pressed" diagnostic if and
\* only if its timestamp is more than fudge_factor_ticks after the stored
\* press timestamp.
C6_RePressReportedIffBeyondTolerance ==
    [][PressOnOpen =>
        LET gap == Taken.timestamp
                     - in_flight[ResolvedPitch(Taken)].timestamp
        IN  IF gap > fudge_factor_ticks
            THEN /\ Len(printed') = Len(printed) + 1
                 /\ printed'[Len(printed')].kind = "already_pressed"
            ELSE printed' = printed
      ]_vars

\* C10: an event whose pitch after the offset is outside the playable range
\* is dropped with one diagnostic: the in-flight table, the suppression
\* counts and the intervals are unchanged, and the pass goes on.
C10_OutOfRangeDroppedAndReported ==
    [][(Stepped /\ Selected(Taken) /\ ~Playable(ResolvedPitch(Taken))) =>
            /\ Len(printed') = Len(printed) + 1
            /\ SubSeq(printed', 1, Len(printed)) = printed
            /\ printed'[Len(printed')].kind = "out_of_range"
            /\ printed'[Len(printed')].at = Taken.timestamp
            /\ in_flight' = in_flight
            /\ suppression' = suppression
            /\ finished_notes' = finished_notes
            /\ pc' = "loop"
      ]_vars

\* The intervals the transition table yields for feed f, in feed order: one
\* for each Release that finds its hole open, from the Press that opened it.
RECURSIVE IntervalsOf(_)
IntervalsOf(f) ==
    IF f = <<>> THEN <<>>
    ELSE LET n == Len(f)
             g == SubSeq(f, 1, n - 1)
             e == f[n]
         IN  IF /\ Admitted(e)
                /\ e.action = "Off"
                /\ OpenAfter(g, n - 1, ResolvedPitch(e))
             THEN Append(IntervalsOf(g),
                         [timestamp |-> g[OpenedAt(g, ResolvedPitch(e))].timestamp,
                          duration |-> e.timestamp
                              - g[OpenedAt(g, ResolvedPitch(e))].timestamp,
                          note |-> ResolvedPitch(e)])
             ELSE IntervalsOf(g)

\* C11: whatever the feed (re-presses on open holes and releases on closed
\* holes included), note_durations never aborts: no pass panics.
C11_NeverAborts == pc /= "panicked"

\* C12: an event the filter does not select changes neither the in-flight
\* table nor the intervals, prints nothing and is not validated (the pass
\* goes on); so the intervals of a feed are those of the feed without its
\* unselected events.
C12_UnselectedNeverReachesResolver ==
    [][/\ (Stepped /\ ~Selected(Taken)) =>
            /\ in_flight' = in_flight
            /\ finished_notes' = finished_notes
            /\ printed' = printed
            /\ suppression' = suppression
            /\ pc' = "loop"
       /\ finished_notes' = IntervalsOf(SelectSeq(feed', Selected))
      ]_vars

\* An unselected Release of the pitch of an open hole sits between the Press
\* and the Release of a selected source: the one interval spans both.
C12_Witness ==
    /\ Len(feed) = 3
    /\ Selected(feed[1]) /\ feed[1].action = "On"
    /\ ~Selected(feed[2]) /\ feed[2].action = "Off"
    /\ feed[2].note = feed[1].note
    /\ feed[2].timestamp > feed[1].timestamp
    /\ Selected(feed[3]) /\ feed[3].action = "Off"
    /\ feed[3].timestamp > feed[2].timestamp
    /\ Len(finished_notes) = 1
    /\ finished_notes[1].timestamp = feed[1].timestamp
    /\ finished_notes[1].duration = feed[3].timestamp - feed[1].timestamp
    /\ printed = <<>>
    /\ pc = "loop"

\* C13: the filter is called exactly once for each event of the feed, in
\* feed order, whatever becomes of the event afterwards (unselected, out of
\* range, or resolved).
C13_FilterCalledOncePerEvent == filter_calls = feed

\* The filter has been called on an event that was then rejected as out of
\* range, on one that opened a hole and on one that closed it.
C13_Witness ==
    /\ Len(feed) = 3
    /\ filter_calls = feed
    /\ Selected(feed[1]) /\ ~Playable(ResolvedPitch(feed[1]))
    /\ Admitted(feed[2]) /\ feed[2].action = "On"
    /\ Admitted(feed[3]) /\ feed[3].action = "Off"
    /\ Len(printed) = 1
    /\ printed[1].kind = "out_of_range"
    /\ Len(finished_notes) = 1

\* The notes 0..127 a validator accepts with offset 0.
AcceptedByMidi == {n \in 0..127 : Admit([note |-> n], 0) /= <<>>}
AcceptedByMain == {n \in 0..127 : Note_try_from(n) /= <<>>}

\* C14: the range validator accepts exactly the closed interval C1..G7, 80
\* consecutive semitones: with offset 0 a Press of C1 or of G7 on a closed
\* hole opens the hole, and one of C1 - 1 or of G7 + 1 is rejected as out of
\* range.
C14_RangeValidatorClosedInterval ==
    [][/\ AcceptedByMidi = MidiNote_C1..MidiNote_G7
       /\ AcceptedByMain = MidiNote_C1..MidiNote_G7
       /\ Cardinality(AcceptedByMain) = 80
       /\ (/\ Stepped
           /\ Filter(Taken) = <<0>>
           /\ Taken.action = "On"
           /\ Taken.note \notin DOMAIN in_flight) =>
              IF Taken.note >= MidiNote_C1 /\ Taken.note <= MidiNote_G7
              THEN /\ DOMAIN in_flight' = DOMAIN in_flight \cup {Taken.note}
                   /\ printed' = printed
                   /\ pc' = "loop"
              ELSE /\ in_flight' = in_flight
                   /\ prog = "midi" =>
                        /\ Len(printed') = Len(printed) + 1
                        /\ printed'[Len(printed')].kind = "out_of_range"
                   /\ prog = "main" => pc' = "panicked"
      ]_vars

\* With offset 0, G7 has been accepted and then G7 + 1 rejected.
C14_Witness ==
    /\ Len(feed) = 2
    /\ Filter(feed[1]) = <<0>>
    /\ feed[1].note = MidiNote_G7 /\ feed[1].action = "On"
    /\ feed[2].note = MidiNote_G7 + 1 /\ feed[2].action = "On"
    /\ DOMAIN in_flight = {MidiNote_G7}
    /\ pc = "panicked"

\* C15: the pitch validated is the exact sum raw + offset: an event whose
\* true sum is outside the playable interval never opens or closes a hole,
\* and one whose true sum is inside it is resolved to that sum, neither
\* rejected nor aborting the pass.
C15_ExactSumValidated ==
    [][(Stepped /\ Selected(Taken)) =>
        LET sum == Taken.note + Filter(Taken)[1]
        IN  IF Playable(sum)
            THEN /\ (Taken.action = "On" /\ sum \notin DOMAIN in_flight) =>
                        /\ DOMAIN in_flight' = DOMAIN in_flight \cup {sum}
                        /\ pc' = "loop"
                 /\ (Taken.action = "Off" /\ sum \in DOMAIN in_flight) =>
                        /\ DOMAIN in_flight' = DOMAIN in_flight \ {sum}
                        /\ finished_notes'[Len(finished_notes')].note = sum
                        /\ pc' = "loop"
            ELSE /\ in_flight' = in_flight
                 /\ finished_notes' = finished_notes
      ]_vars

\* A well-formed feed: every selected event resolves to a playable pitch
\* and, per resolved pitch, Press and Release alternate starting with Press.
WellFormed(f) ==
    /\ OutOfRangeEvents(f) = {}
    /\ RePresses(f) = {}
    /\ OrphanReleases(f) = {}

\* The admitted Releases of a feed, the k-th member of a set of positions,
\* and the Press a Release is paired with: the last one of its pitch before.
AdmittedReleases(f) ==
    {i \in 1..Len(f) : Admitted(f[i]) /\ f[i].action = "Off"}
NthOf(S, k) == CHOOSE i \in S : Cardinality({j \in S : j <= i}) = k
PairedPress(f, i) ==
    CHOOSE j \in 1..(i - 1) :
        /\ PressAt(f, j, ResolvedPitch(f[i]))
        /\ \A m \in (j + 1)..(i - 1) : ~PressAt(f, m, ResolvedPitch(f[i]))

\* C16: on a well-formed feed the output holds exactly one interval per
\* Press/Release pair, in the order of the Releases, with start = the Press
\* timestamp and duration = Release timestamp - Press timestamp, and nothing
\* is printed (nor does the pass abort).
C16_WellFormedOneIntervalPerPair ==
    WellFormed(feed) =>
        /\ pc /= "panicked"
        /\ printed = <<>>
        /\ Len(finished_notes) = Cardinality(AdmittedReleases(feed))
        /\ \A k \in 1..Len(finished_notes) :
             LET i == NthOf(AdmittedReleases(feed), k)
                 j == PairedPress(feed, i)
             IN  finished_notes[k] =
                     [timestamp |-> feed[j].timestamp,
                      duration |-> feed[i].timestamp - feed[j].timestamp,
                      note |-> ResolvedPitch(feed[i])]

\* A pass over three Press/Release pairs of one pitch has returned three
\* intervals, the first of duration 0 and the last of positive duration,
\* and printed nothing.
C16_Witness ==
    /\ pc = "returned"
    /\ Len(feed) = 6
    /\ WellFormed(feed)
    /\ Len(finished_notes) = 3
    /\ finished_notes[1].duration = 0
    /\ finished_notes[3].duration > 0
    /\ finished_notes[3].timestamp > finished_notes[2].timestamp
    /\ printed = <<>>

\* C17: every emitted interval starts at the timestamp of some admitted
\* Press of the feed for the same resolved pitch, and no duration is
\* negative.
C17_StartIsAPressDurationNonNegative ==
    \A k \in 1..Len(finished_notes) :
        /\ finished_notes[k].duration >= 0
        /\ \E i \in 1..Len(feed) :
             /\ PressAt(feed, i, finished_notes[k].note)
             /\ feed[i].timestamp = finished_notes[k].timestamp

\* A feed that is not well-formed (it starts with a Release on a closed
\* hole) has emitted an interval of positive duration.
C17_Witness ==
    /\ Len(feed) = 3
    /\ OrphanReleases(feed) = {1}
    /\ Len(finished_notes) = 1
    /\ finished_notes[1].duration > 0
    /\ finished_notes[1].timestamp = feed[2].timestamp
    /\ feed[3].timestamp > feed[2].timestamp

\* The Releases of p on the closed hole that were dropped without a line:
\* those absorbed by suppression.
NotPressedLines(p) ==
    {k \in 1..Len(printed) :
        printed[k].kind = "not_pressed" /\ printed[k].note = p}
AbsorbedReleases(p) ==
    Cardinality({i \in OrphanReleases(feed) : ResolvedPitch(feed[i]) = p})
      - Cardinality(NotPressedLines(p))

\* C18: over a full pass, for every resolved pitch, the number of Presses
\* received while the hole was open equals the number of Releases absorbed
\* by suppression plus the number of "not pressed" diagnostics of the pitch.
C18_SuppressionInvariant ==
    pc = "returned" =>
        \A p \in SongPitches :
            Cardinality({i \in RePresses(feed) : ResolvedPitch(feed[i]) = p})
              = AbsorbedReleases(p) + Cardinality(NotPressedLines(p))

\* C18, as the code has it: over a full pass, for every resolved pitch, the
\* Releases absorbed are never more than the Presses received while the
\* hole was open, and every other Release that found the hole closed has its
\* "not pressed" diagnostic.
C18_AbsorbedWithinRePresses ==
    pc = "returned" =>
        \A p \in SongPitches :
            /\ AbsorbedReleases(p) >= 0
            /\ AbsorbedReleases(p) <=
                 Cardinality({i \in RePresses(feed) :
                                 ResolvedPitch(feed[i]) = p})

\* A full pass over Press, Press, Release, Release of one pitch: one Press
\* on the open hole, and the second Release reported, not absorbed.
C18_Witness ==
    /\ pc = "returned"
    /\ Len(feed) = 4
    /\ RePresses(feed) = {2}
    /\ OrphanReleases(feed) = {4}
    /\ Cardinality(NotPressedLines(MidiNote_C1)) = 1
    /\ AbsorbedReleases(MidiNote_C1) = 0
    /\ Len(finished_notes) = 1

\* C19: a pass is determined by its feed and filter alone: it starts from an
\* empty table, so in every state the intervals are those the transition
\* table yields for the feed pulled so far and the open holes are those the
\* feed leaves open; two passes over the same feed return the same list.
C19_PassDeterminedByFeed ==
    /\ finished_notes = IntervalsOf(feed)
    /\ DOMAIN in_flight =
         {p \in SongPitches : OpenAfter(feed, Len(feed), p)}
    /\ suppression = <<>>

\* A pass has returned one interval after a feed that began with a Release
\* on a closed hole.
C19_Witness ==
    /\ pc = "returned"
    /\ Len(feed) = 3
    /\ feed[1].action = "Off" /\ Admitted(feed[1])
    /\ Len(finished_notes) = 1
    /\ finished_notes = IntervalsOf(feed)
    /\ in_flight = <<>>

\* C20: the hole is keyed by the resolved pitch alone: an admitted event
\* whose resolved pitch has an open hole acts on that hole even when the
\* hole was opened from another (track, channel) or by another raw pitch: a
\* Release closes it and emits its interval, a Press is a re-press.
C20_KeyIsResolvedPitchOnly ==
    [][(/\ Stepped
        /\ Admitted(Taken)
        /\ OpenAfter(feed, Len(feed), ResolvedPitch(Taken))
        /\ LET first == feed[OpenedAt(feed, ResolvedPitch(Taken))]
           IN  \/ <<first.track, first.channel>>
                    /= <<Taken.track, Taken.channel>>
               \/ first.note /= Taken.note) =>
        LET p == ResolvedPitch(Taken)
            first == feed[OpenedAt(feed, p)]
        IN  IF Taken.action = "Off"
            THEN /\ p \notin DOMAIN in_flight'
                 /\ finished_notes' =
                      Append(finished_notes,
                             [timestamp |-> first.timestamp,
                              duration |-> Taken.timestamp - first.timestamp,
                              note |-> p])
                 /\ printed' = printed
                 /\ pc' = "loop"
            ELSE /\ in_flight' = in_flight
                 /\ finished_notes' = finished_notes
                 /\ prog = "midi" =>
                      /\ Len(printed') = Len(printed) + 1
                      /\ printed'[Len(printed')].kind = "already_pressed"
                      /\ printed'[Len(printed')].track = first.track
                      /\ printed'[Len(printed')].channel = first.channel
                 /\ prog = "main" => pc' = "panicked"
      ]_vars

\* A hole opened by raw pitch C1 of one source has been pressed again, and
\* then closed, by raw pitch C1 + 1 of the other source, selected with
\* offset -1.
C20_Witness ==
    /\ Len(feed) = 3
    /\ feed[1].note = MidiNote_C1 /\ Filter(feed[1]) = <<0>>
    /\ feed[1].action = "On"
    /\ feed[2].note = MidiNote_C1 + 1 /\ Filter(feed[2]) = <<-1>>
    /\ feed[2].action = "On"
    /\ feed[3].note = MidiNote_C1 + 1 /\ Filter(feed[3]) = <<-1>>
    /\ feed[3].action = "Off"
    /\ feed[3].timestamp > feed[1].timestamp
    /\ finished_notes =
         <<[timestamp |-> feed[1].timestamp,
            duration |-> feed[3].timestamp - feed[1].timestamp,
            note |-> MidiNote_C1]>>
    /\ Len(printed) = 1
    /\ in_flight = <<>>

\* C22: the roll channel of every note that is rendered lies in the region
\* of the notes, Channel_C1..Channel_G7, and so is never one of the channels
\* of the control functions.
C22_HoleIndexInNoteRegion ==
    \A k \in 1..Len(canvas) :
        canvas[k].channel >= Channel_C1 /\ canvas[k].channel <= Channel_G7

\* The presses the feed holds from source s, and the tally's count for it.
PressesFrom(s) ==
    {i \in 1..Len(feed) :
        feed[i].action = "On" /\ <<feed[i].track, feed[i].channel>> = s}
StatsCount(s) == IF s \in DOMAIN stats THEN stats[s] ELSE 0

\* C26: the filter's tally per (track, channel) counts the Presses of the
\* feed from that source, each once, and no Release; the intervals are those
\* the feed yields, whatever the tally holds.
C26_TallyCountsPressesOnly ==
    /\ \A s \in song.sources : StatsCount(s) = Cardinality(PressesFrom(s))
    /\ \A s \in DOMAIN stats : s \in song.sources /\ stats[s] >= 1
    /\ finished_notes = IntervalsOf(feed)

\* A Press and a Release of the selected source and a Press of the source
\* that is not selected: each source counts one, and one interval is out.
C26_Witness ==
    /\ Len(feed) = 3
    /\ Selected(feed[1]) /\ feed[1].action = "On"
    /\ Selected(feed[2]) /\ feed[2].action = "Off"
    /\ ~Selected(feed[3]) /\ feed[3].action = "On"
    /\ \A s \in song.sources : StatsCount(s) = 1
    /\ Len(finished_notes) = 1

\* The Releases of a feed that find their hole open, of whatever pitch.
AllReleasesOnOpen(f) ==
    {i \in 1..Len(f) :
        /\ Admitted(f[i])
        /\ f[i].action = "Off"
        /\ OpenAfter(f, i - 1, ResolvedPitch(f[i]))}

\* C21: the intervals stand in the returned list in the order in which the
\* Releases that closed them come in the feed: the k-th interval has the
\* pitch of the k-th Release on an open hole and ends at its timestamp.
C21_IntervalsInReleaseOrder ==
    /\ Len(finished_notes) = Cardinality(AllReleasesOnOpen(feed))
    /\ \A k \in 1..Len(finished_notes) :
         LET i == NthOf(AllReleasesOnOpen(feed), k)
         IN  /\ finished_notes[k].note = ResolvedPitch(feed[i])
             /\ finished_notes[k].timestamp + finished_notes[k].duration
                  = feed[i].timestamp

\* Two holes overlapped and the one opened later was closed first: the list
\* is not in the order of the start timestamps.
C21_Witness ==
    /\ Len(finished_notes) = 2
    /\ finished_notes[1].note /= finished_notes[2].note
    /\ finished_notes[1].timestamp > finished_notes[2].timestamp
    /\ finished_notes[1].timestamp + finished_notes[1].duration
         <= finished_notes[2].timestamp + finished_notes[2].duration

\* C29: the list of intervals only grows at its end during a pass: every
\* step leaves the intervals already emitted where and as they are.
C29_IntervalsAppendOnly ==
    [][/\ Len(finished_notes') >= Len(finished_notes)
       /\ SubSeq(finished_notes', 1, Len(finished_notes)) = finished_notes
      ]_vars

\* An interval was emitted by the second event; a Press of the same pitch
\* and a Press of the other pitch came after it, and it stands unchanged.
C29_Witness ==
    /\ Len(feed) = 4
    /\ ReleasesOnOpen(feed, ResolvedPitch(feed[2])) = {2}
    /\ feed[3].action = "On" /\ feed[3].note = feed[2].note
    /\ feed[4].action = "On" /\ feed[4].note /= feed[2].note
    /\ finished_notes =
         <<[timestamp |-> feed[1].timestamp,
            duration |-> feed[2].timestamp - feed[1].timestamp,
            note |-> ResolvedPitch(feed[2])]>>

\* The last admitted event of pitch p in feed f is a Press.
LastAdmittedIsPress(f, p) ==
    \E i \in 1..Len(f) :
        /\ PressAt(f, i, p)
        /\ \A j \in (i + 1)..Len(f) : ~(PressAt(f, j, p) \/ ReleaseAt(f, j, p))

\* C30: after any prefix of the feed the hole of a pitch is open if and only
\* if the last admitted event of that pitch was a Press, and the in-flight
\* table holds keys of the playable range only (one record for each).
C30_OpenIffLastAdmittedIsPress ==
    /\ \A p \in MidiNote_C1..MidiNote_G7 :
         (p \in DOMAIN in_flight) <=> LastAdmittedIsPress(feed, p)
    /\ DOMAIN in_flight \subseteq MidiNote_C1..MidiNote_G7

\* A hole was opened and pressed again, and a Release that is not admitted
\* (unselected or out of range) came last: the hole is open.
C30_Witness ==
    /\ Len(feed) = 3
    /\ Admitted(feed[1]) /\ feed[1].action = "On"
    /\ Admitted(feed[2]) /\ feed[2].action = "On"
    /\ ResolvedPitch(feed[2]) = ResolvedPitch(feed[1])
    /\ ~Admitted(feed[3]) /\ feed[3].action = "Off"
    /\ DOMAIN in_flight = {ResolvedPitch(feed[1])}

\* C24: suppression credit outlives the interval it was earned in: a Release
\* on the closed hole that has credit from a Press on the open hole of an
\* earlier interval, after a later interval of the pitch was opened and
\* closed, is absorbed: no line, no interval, and the pass goes on.
C24_CreditPersistsAcrossIntervals ==
    [][(/\ ReleaseOnClosed
        /\ Credit(feed, Len(feed), ResolvedPitch(Taken)) > 0
        /\ \E i, j, k \in 1..Len(feed) :
             /\ i < j /\ j < k
             /\ i \in RePresses(feed)
             /\ PressAt(feed, j, ResolvedPitch(Taken))
             /\ ~OpenAfter(feed, j - 1, ResolvedPitch(Taken))
             /\ k \in ReleasesOnOpen(feed, ResolvedPitch(Taken))) =>
            /\ printed' = printed
            /\ finished_notes' = finished_notes
            /\ pc' = "loop"
      ]_vars

\* The lines the anomalies of feed f call for, in feed order: one for each
\* selected event out of range (with the event's timestamp, raw note, track,
\* channel and the offset), one for each Press on an open hole (with the
\* event's timestamp, the pitch, and the track, channel and timestamp of the
\* Press that opened the hole), one for each Release on a closed hole (with
\* the event's timestamp, pitch, track and channel).
RECURSIVE DiagnosticsOf(_)
DiagnosticsOf(f) ==
    IF f = <<>> THEN <<>>
    ELSE LET n == Len(f)
             g == SubSeq(f, 1, n - 1)
             e == f[n]
         IN  IF ~Selected(e) THEN DiagnosticsOf(g)
             ELSE IF ~Playable(ResolvedPitch(e))
             THEN Append(DiagnosticsOf(g),
                         [kind |-> "out_of_range", at |-> e.timestamp,
                          note |-> e.note, track |-> e.track,
                          channel |-> e.channel, arg |-> Filter(e)[1]])
             ELSE IF e.action = "On" /\ OpenAfter(g, n - 1, ResolvedPitch(e))
             THEN Append(DiagnosticsOf(g),
                         [kind |-> "already_pressed", at |-> e.timestamp,
                          note |-> ResolvedPitch(e),
                          track |-> g[OpenedAt(g, ResolvedPitch(e))].track,
                          channel |-> g[OpenedAt(g, ResolvedPitch(e))].channel,
                          arg |-> g[OpenedAt(g, ResolvedPitch(e))].timestamp])
             ELSE IF e.action = "Off" /\ ~OpenAfter(g, n - 1, ResolvedPitch(e))
             THEN Append(DiagnosticsOf(g),
                         [kind |-> "not_pressed", at |-> e.timestamp,
                          note |-> ResolvedPitch(e), track |-> e.track,
                          channel |-> e.channel, arg |-> 0])
             ELSE DiagnosticsOf(g)

\* C27: midi.rs prints exactly one line per anomaly, carrying the event's
\* timestamp and pitch; the line of a Press on an open hole names the track,
\* channel and timestamp of the Press that opened the hole.
C27_OneDiagnosticPerAnomaly ==
    prog = "midi" => printed = DiagnosticsOf(feed)

\* A hole opened by one source was pressed later by the other, and a Release
\* on a closed hole followed: two lines, the first naming the opener.
C27_Witness ==
    /\ prog = "midi"
    /\ Len(feed) = 3
    /\ RePresses(feed) = {2}
    /\ OrphanReleases(feed) = {3}
    /\ feed[2].track /= feed[1].track
    /\ feed[2].timestamp > feed[1].timestamp
    /\ Len(printed) = 2
    /\ printed[1].track = feed[1].track
    /\ printed[1].channel = feed[1].channel
    /\ printed[1].arg = feed[1].timestamp
    /\ printed[1].at = feed[2].timestamp
    /\ printed[2].kind = "not_pressed"
    /\ printed[2].at = feed[3].timestamp

\* The note messages among the first n messages, and the start of the track
\* that message i belongs to.
NoteMessages(n) ==
    {i \in 1..n : messages[i].kind \in {"NoteOn", "NoteOff"}}
TrackStarts(n) == {i \in 1..n : messages[i].kind = "TrackChange"}
TrackStartOf(i) ==
    CHOOSE j \in TrackStarts(i) : \A l \in TrackStarts(i) : l <= j

\* The sum of the delta_times of messages from..to.
RECURSIVE DeltaSum(_, _)
DeltaSum(from, to) ==
    IF to < from THEN 0
    ELSE messages[to].delta_time + DeltaSum(from, to - 1)

\* C23: the reader yields one NoteEvent per note message, in order: a NoteOn
\* of velocity 0 as a Release, a NoteOn of velocity above 0 as a Press, a
\* NoteOff as a Release whatever its velocity.
C23_ZeroVelocityPressIsRelease ==
    /\ Len(events) = Cardinality(NoteMessages(Len(messages)))
    /\ \A k \in 1..Len(events) :
         LET m == messages[NthOf(NoteMessages(Len(messages)), k)]
         IN  events[k].action =
                IF m.kind = "NoteOn" /\ m.velocity > 0 THEN "On" ELSE "Off"

\* A NoteOn of velocity 0, a NoteOn of velocity above 0 and a NoteOff of
\* velocity above 0 have been read.
C23_Witness ==
    /\ Len(messages) = 4
    /\ messages[2].kind = "NoteOn" /\ messages[2].velocity = 0
    /\ messages[3].kind = "NoteOn" /\ messages[3].velocity > 0
    /\ messages[4].kind = "NoteOff" /\ messages[4].velocity > 0
    /\ Len(events) = 3
    /\ events[1].action = "Off"
    /\ events[2].action = "On"
    /\ events[3].action = "Off"

\* C25: the NoteEvents the reader hands over have nondecreasing timestamps
\* over the whole feed, across the tracks of the file.
C25_FeedTimestampsNondecreasing ==
    \A k \in 1..Len(events) :
        \A l \in (k + 1)..Len(events) :
            events[k].timestamp <= events[l].timestamp

\* C28: within one track the timestamps of the NoteEvents do not decrease;
\* each is the sum of the delta_times of all the messages of its track up to
\* and including its own, and its track is the number of track starts before
\* its own track's; the clock is 0 after each track start after the first.
C28_TrackClockIsSumOfDeltas ==
    /\ \A k \in 1..Len(events) :
         LET i == NthOf(NoteMessages(Len(messages)), k)
         IN  /\ events[k].timestamp = DeltaSum(TrackStartOf(i) + 1, i)
             /\ events[k].track = Cardinality(TrackStarts(i)) - 1
    /\ \A k \in 1..Len(events) :
         \A l \in (k + 1)..Len(events) :
            events[k].track = events[l].track =>
                events[k].timestamp <= events[l].timestamp
    /\ (/\ messages /= <<>>
        /\ messages[Len(messages)].kind = "TrackChange"
        /\ Len(messages) > 1) => timestamp = 0

\* A meta event and a NoteOn, each one tick after the one before, put the
\* NoteEvent at tick 2 of track 0; the next track has started at tick 0.
C28_Witness ==
    /\ Len(messages) = 4
    /\ messages[2].kind = "Meta" /\ messages[2].delta_time = 1
    /\ messages[3].kind = "NoteOn" /\ messages[3].delta_time = 1
    /\ messages[4].kind = "TrackChange"
    /\ Len(events) = 1
    /\ events[1].timestamp = 2
    /\ events[1].track = 0
    /\ timestamp = 0
    /\ track = 1

\* C31: under a nondecreasing feed the intervals emitted for one resolved
\* pitch never overlap: in emission order, each starts at or after the end
\* (start + duration) of every earlier interval of the same pitch.
C31_SamePitchIntervalsDisjoint ==
    \A k \in 1..Len(finished_notes) :
        \A l \in (k + 1)..Len(finished_notes) :
            finished_notes[k].note = finished_notes[l].note =>
                finished_notes[l].timestamp >=
                    finished_notes[k].timestamp + finished_notes[k].duration

\* Two intervals of the same pitch, the first one tick long and the second
\* starting on the tick at which the first ends.
C31_Witness ==
    /\ Len(finished_notes) = 2
    /\ finished_notes[1].note = finished_notes[2].note
    /\ finished_notes[1].duration = 1
    /\ finished_notes[2].duration = 1
    /\ finished_notes[2].timestamp =
         finished_notes[1].timestamp + finished_notes[1].duration

\* C32: processing an admitted event of resolved pitch p leaves every other
\* pitch q open or closed as it was, with the press record it had, and
\* emits intervals of pitch p only.
C32_OtherPitchesUntouched ==
    [][(Stepped /\ Admitted(Taken)) =>
         LET p == ResolvedPitch(Taken)
         IN  /\ \A q \in (DOMAIN in_flight \cup DOMAIN in_flight') \ {p} :
                   /\ q \in DOMAIN in_flight
                   /\ q \in DOMAIN in_flight'
                   /\ in_flight'[q] = in_flight[q]
             /\ \A k \in (Len(finished_notes) + 1)..Len(finished_notes') :
                   finished_notes'[k].note = p
      ]_vars

\* Two pitches were pressed and the first was released: its interval is
\* out and the hole of the second is still open with its own press.
C32_Witness ==
    /\ Len(feed) = 3
    /\ feed[1].action = "On" /\ feed[2].action = "On"
    /\ feed[3].action = "Off"
    /\ feed[1].note /= feed[2].note
    /\ feed[3].note = feed[1].note
    /\ feed[2].timestamp > feed[1].timestamp
    /\ DOMAIN in_flight = {ResolvedPitch(feed[2])}
    /\ in_flight[ResolvedPitch(feed[2])].timestamp = feed[2].timestamp
    /\ Len(finished_notes) = 1
    /\ finished_notes[1].note = ResolvedPitch(feed[1])

\* The index, from 0, of the track chunk that message i belongs to.
ChunkOf(i) == Cardinality(TrackStarts(i)) - 1

\* The NoteOn messages read so far.
NoteOnMessages == {i \in 1..Len(messages) : messages[i].kind = "NoteOn"}

\* The place among the NoteEvents of the one that note message i yielded.
EventOf(i) == Cardinality(NoteMessages(i))

\* C33: in ghakuf's handlers the first track_change only sets
\* headers_finished and leaves the track index at 0; every later one adds
\* exactly 1 to the track index (and the NotesHandler puts its timestamp
\* back to 0); no other callback moves the index, so the events of the k-th
\* track chunk (k from 0) carry track index k.
C33_TrackIndexCountsFromFirstTrack ==
    [][(reader = "ghakuf" /\ Len(messages') = Len(messages) + 1) =>
         /\ IF messages'[Len(messages')].kind /= "TrackChange"
            THEN /\ track' = track
                 /\ channel_handler'.track = channel_handler.track
                 /\ headers_finished' = headers_finished
            ELSE IF TrackStarts(Len(messages)) = {}
            THEN /\ ~headers_finished /\ headers_finished'
                 /\ ~channel_handler.headers_finished
                 /\ channel_handler'.headers_finished
                 /\ track = 0 /\ track' = 0
                 /\ channel_handler.track = 0 /\ channel_handler'.track = 0
                 /\ timestamp' = timestamp
            ELSE /\ headers_finished /\ headers_finished'
                 /\ channel_handler.headers_finished
                 /\ channel_handler'.headers_finished
                 /\ track' = track + 1
                 /\ channel_handler'.track = channel_handler.track + 1
                 /\ timestamp' = 0
         /\ \A k \in (Len(events) + 1)..Len(events') :
                events'[k].track = ChunkOf(Len(messages))
         /\ \A key \in DOMAIN channel_handler'.channels
                           \ DOMAIN channel_handler.channels :
                key[1] = ChunkOf(Len(messages))
      ]_vars

\* ghakuf has read two tracks with a NoteOn in each: the first event
\* carries track 0 and the second track 1.
C33_Witness ==
    /\ reader = "ghakuf"
    /\ Len(messages) = 4
    /\ messages[1].kind = "TrackChange" /\ messages[2].kind = "NoteOn"
    /\ messages[3].kind = "TrackChange" /\ messages[4].kind = "NoteOn"
    /\ messages[2].delta_time = 1
    /\ Len(events) = 2
    /\ events[1].track = 0 /\ events[2].track = 1
    /\ events[2].timestamp = messages[4].delta_time
    /\ track = 1
    /\ channel_handler.track = 1

Occurrences(seq, x) == Cardinality({i \in 1..Len(seq) : seq[i] = x})

\* The note messages write has pushed so far, after its first five.
WrittenNoteMessages ==
    SubSeq(writer.messages, Len(WriteHeader) + 1,
           IF writer.pc = "written" THEN Len(writer.messages) - 1
           ELSE Len(writer.messages))

\* The sum of the delta_times of the first j messages of seq.
RECURSIVE RunningSum(_, _)
RunningSum(seq, j) ==
    IF j = 0 THEN 0 ELSE seq[j].delta_time + RunningSum(seq, j - 1)

\* C35: write makes of each interval a NoteOn at its start and a NoteOff at
\* start + duration, orders the events by timestamp, and gives each message
\* the delta_time from the message before it: no delta is negative and the
\* running sum of the deltas at each message is its event's timestamp.
C35_DeltasSumToTimestamps ==
    writer.pc \in {"messages", "written"} =>
        /\ Len(writer.note_events) = 2 * Len(writer.notes)
        /\ \A k \in 1..Len(writer.notes) :
              LET n == writer.notes[k]
                  on == [timestamp |-> n.timestamp, track |-> 0,
                         channel |-> 0, note |-> n.note, action |-> "On"]
                  off == [timestamp |-> n.timestamp + n.duration,
                          track |-> 0, channel |-> 0, note |-> n.note,
                          action |-> "Off"]
              IN  /\ Occurrences(writer.note_events, on) =
                        Cardinality({i \in 1..Len(writer.notes) :
                            /\ writer.notes[i].timestamp = n.timestamp
                            /\ writer.notes[i].note = n.note})
                  /\ Occurrences(writer.note_events, off) =
                        Cardinality({i \in 1..Len(writer.notes) :
                            /\ writer.notes[i].timestamp
                                 + writer.notes[i].duration = off.timestamp
                            /\ writer.notes[i].note = n.note})
        /\ \A k \in 1..Len(writer.note_events) :
              \A l \in (k + 1)..Len(writer.note_events) :
                 writer.note_events[k].timestamp
                     <= writer.note_events[l].timestamp
        /\ \A j \in 1..Len(WrittenNoteMessages) :
              /\ WrittenNoteMessages[j].delta_time >= 0
              /\ WrittenNoteMessages[j].note = writer.note_events[j].note
              /\ WrittenNoteMessages[j].kind =
                    IF writer.note_events[j].action = "On"
                    THEN "NoteOn" ELSE "NoteOff"
              /\ RunningSum(WrittenNoteMessages, j) =
                    writer.note_events[j].timestamp

\* The intervals of the two lists are the same, each as many times.
SameIntervals(a, b) ==
    /\ Len(a) = Len(b)
    /\ \A i \in 1..Len(a) : Occurrences(a, a[i]) = Occurrences(b, a[i])

\* C36: the On/Off events that write builds from the intervals of a pass,
\* sorted by start timestamp, give back the same intervals, each as many
\* times, when note_durations resolves them with offset 0, and no line is
\* printed and no hole is left open.  (The pass itself is note_durations of
\* its feed: the first conjunct.)
C36_WriteRoundTrip ==
    /\ note_durations(feed, 0) =
          [in_flight |-> in_flight, finished_notes |-> finished_notes,
           printed |-> printed]
    /\ (/\ writer.pc \in {"messages", "written"}
        /\ writer.notes = SortByTimestamp(finished_notes)) =>
          /\ SameIntervals(note_durations(writer.note_events, 0).finished_notes,
                           finished_notes)
          /\ note_durations(writer.note_events, 0).printed = <<>>
          /\ note_durations(writer.note_events, 0).in_flight = <<>>

\* Written: an interval of one tick and, of the same pitch, an interval of
\* no length that starts on the tick at which the first ends.
C36_Witness ==
    /\ writer.pc = "written"
    /\ writer.notes = SortByTimestamp(finished_notes)
    /\ Len(finished_notes) = 2
    /\ finished_notes[1].note = finished_notes[2].note
    /\ finished_notes[1].duration = 1
    /\ finished_notes[2].duration = 0
    /\ finished_notes[2].timestamp =
         finished_notes[1].timestamp + finished_notes[1].duration
    /\ Len(writer.note_events) = 4
====
